---- MODULE Spec2Model ----
(***************************************************************************)
(* Model of app_definition.py: the AppDefinition class (a namespace of     *)
(* is_{app_name} predicates built by the class body and the metaclass      *)
(* StaticMethodPriorityMeta) and get_glyph(), which sorts the predicates   *)
(* by priority and returns the glyph of the first one that is mapped and   *)
(* matches.                                                                *)
(*                                                                         *)
(* Python strings are sequences of one-character strings, so that          *)
(* startswith, lower, split, "in" and the regular expression are computed  *)
(* character by character.  Python's None is the value None below.         *)
(***************************************************************************)
EXTENDS Integers, Sequences, FiniteSets, TLC

VARIABLES ns, phase, line, pc, app, glyphs, app_definitions, idx,
          evaluated, result, prev

vars == <<ns, phase, line, pc, app, glyphs, app_definitions, idx,
          evaluated, result, prev>>

(* ---------------------------------------------------------------------- *)
(* Python values                                                           *)
(* ---------------------------------------------------------------------- *)

\* Python's None: a one-element sequence no character string equals.
None == <<"<None>">>

\* bool(x) of a str-or-None value: None and "" are falsy.
Truthy(x) == x # None /\ x # << >>

\* s[i-1:i-1+len(lit)] == lit
MatchAt(s, i, lit) ==
    /\ i + Len(lit) - 1 <= Len(s)
    /\ SubSeq(s, i, i + Len(lit) - 1) = lit

\* str.startswith
StartsWith(s, prefix) == MatchAt(s, 1, prefix)

\* "sub in s" for strings
Contains(s, sub) == \E i \in 1..(Len(s) + 1) : MatchAt(s, i, sub)

UpperLetters == <<"A","B","C","D","E","F","G","H","I","J","K","L","M",
                  "N","O","P","Q","R","S","T","U","V","W","X","Y","Z">>

LowerLetters == <<"a","b","c","d","e","f","g","h","i","j","k","l","m",
                  "n","o","p","q","r","s","t","u","v","w","x","y","z">>

LowerChar(c) ==
    IF \E k \in DOMAIN UpperLetters : UpperLetters[k] = c
    THEN LowerLetters[CHOOSE k \in DOMAIN UpperLetters : UpperLetters[k] = c]
    ELSE c

\* str.lower
Lower(s) == [k \in DOMAIN s |-> LowerChar(s[k])]

\* s.split(sep)[-1]: the separator is searched left to right, without
\* overlap; the last piece is what follows the last separator found.
RECURSIVE SplitLastFrom(_, _, _, _)
SplitLastFrom(s, sep, i, start) ==
    IF i + Len(sep) - 1 > Len(s)
    THEN SubSeq(s, start, Len(s))
    ELSE IF MatchAt(s, i, sep)
         THEN SplitLastFrom(s, sep, i + Len(sep), i + Len(sep))
         ELSE SplitLastFrom(s, sep, i + 1, start)

SplitLast(s, sep) == SplitLastFrom(s, sep, 1, 1)

IsDigit(c) == c \in {"0","1","2","3","4","5","6","7","8","9"}

\* youtube_re.search(s) finds a match: (^(\(\d+\))?YouTube)|(- YouTube)
\*   - "YouTube" at the start of s, or
\*   - "(" one or more digits ")" at the start, directly followed by
\*     "YouTube", or
\*   - "- YouTube" anywhere in s.
youtube_re_search(s) ==
    \/ MatchAt(s, 1, <<"Y","o","u","T","u","b","e">>)
    \/ /\ Len(s) >= 3
       /\ s[1] = "("
       /\ \E j \in 3..Len(s) :
            /\ s[j] = ")"
            /\ \A d \in 2..(j - 1) : IsDigit(s[d])
            /\ MatchAt(s, j + 1, <<"Y","o","u","T","u","b","e">>)
    \/ Contains(s, <<"-"," ","Y","o","u","T","u","b","e">>)

(* ---------------------------------------------------------------------- *)
(* The predicate bodies of class AppDefinition.  Each returns "True" or    *)
(* "False" (the truth value get_glyph's "and" sees) or the name of the     *)
(* exception it raises.                                                    *)
(* ---------------------------------------------------------------------- *)

PyBool(b) == IF b THEN "True" ELSE "False"

is_download_manager(a) == PyBool(a.class_ = <<"U","g","e","t","-","g","t","k">>)

is_browser(a) ==
    PyBool(a.class_ \in
      {<<"F","i","r","e","f","o","x">>,
       <<"G","o","o","g","l","e","-","c","h","r","o","m","e">>,
       <<"q","u","t","e","b","r","o","w","s","e","r">>})

is_tor(a) == PyBool(a.class_ = <<"T","o","r"," ","B","r","o","w","s","e","r">>)

is_pdf_reader(a) ==
    PyBool(a.class_ \in
      {<<"O","k","u","l","a","r">>,
       <<"Z","a","t","h","u","r","a">>,
       <<"F","o","x","i","t"," ","R","e","a","d","e","r">>,
       <<"M","u","P","D","F">>})

is_virtual_machine(a) ==
    PyBool(a.class_ \in
      {<<"V","m","p","l","a","y","e","r">>,
       <<"V","i","r","t","u","a","l","B","o","x">>,
       <<"V","i","r","t","u","a","l","B","o","x"," ","M","a","n","a","g","e","r">>,
       <<"V","i","r","t","u","a","l","B","o","x"," ","M","a","c","h","i","n","e">>})

is_media_player(a) ==
    PyBool(Truthy(a.class_) /\ Lower(a.class_) \in
      {<<"v","l","c">>,
       <<"m","p","l","a","y","e","r">>})

is_wireshark(a) == PyBool(a.class_ = <<"W","i","r","e","s","h","a","r","k">>)

is_terminal(a) ==
    PyBool(a.class_ \in
      {<<"G","n","o","m","e","-","t","e","r","m","i","n","a","l">>,
       <<"U","R","x","v","t">>,
       <<"X","T","e","r","m">>,
       <<"s","t","-","2","5","6","c","o","l","o","r">>})

is_file_browser(a) == PyBool(a.class_ = <<"N","a","u","t","i","l","u","s">>)

is_image_viewer(a) ==
    PyBool(a.class_ \in
      {<<"P","i","n","t","a">>,
       <<"P","q","i","v">>,
       <<"f","e","h">>,
       <<"E","o","g">>})

is_fontforge(a) == PyBool(a.class_ = <<"f","o","n","t","f","o","r","g","e">>)

is_office(a) ==
    PyBool(Truthy(a.class_) /\ StartsWith(a.class_, <<"l","i","b","r","e","o","f","f","i","c","e">>))

is_gvim(a) == PyBool(a.class_ = <<"G","v","i","m">>)

is_editor(a) == PyBool(a.class_ = <<"G","e","d","i","t">>)

is_android_studio(a) ==
    PyBool(/\ a.class_ = <<"j","e","t","b","r","a","i","n","s","-","s","t","u","d","i","o">>
           /\ a.instance_ = <<"s","u","n","-","a","w","t","-","X","1","1","-","X","F","r","a","m","e","P","e","e","r">>
           /\ Truthy(a.name)
           /\ Contains(SplitLast(a.name, <<" ","-"," ">>),
                       <<"A","n","d","r","o","i","d"," ","S","t","u","d","i","o">>))

is_skype(a) == PyBool(a.class_ = <<"S","k","y","p","e">>)

is_ida(a) == PyBool(a.class_ = <<"I","D","A">>)

is_steam(a) == PyBool(a.class_ = <<"S","t","e","a","m">>)

is_burp_suite(a) ==
    PyBool(Truthy(a.name) /\ StartsWith(a.name, <<"B","u","r","p"," ","S","u","i","t","e">>))

is_gephi(a) ==
    PyBool(Truthy(a.class_) /\ Contains(a.class_, <<"G","e","p","h","i">>))

is_zeal(a) == PyBool(a.class_ = <<"Z","e","a","l">>)

is_gitk(a) == PyBool(a.class_ = <<"G","i","t","k">>)

is_bless(a) == PyBool(a.class_ = <<"B","l","e","s","s">>)

is_discord(a) == PyBool(a.class_ = <<"d","i","s","c","o","r","d">>)

is_todoist(a) == PyBool(a.class_ = <<"t","o","d","o","i","s","t">>)

is_inkscape(a) == PyBool(a.class_ = <<"I","n","k","s","c","a","p","e">>)

\* Calling a function object whose body is one of the bodies above.  A
\* function is identified by the source name of its body.
CallBody(body, a) ==
    CASE body = "is_download_manager" -> is_download_manager(a)
      [] body = "is_browser" -> is_browser(a)
      [] body = "is_tor" -> is_tor(a)
      [] body = "is_pdf_reader" -> is_pdf_reader(a)
      [] body = "is_virtual_machine" -> is_virtual_machine(a)
      [] body = "is_media_player" -> is_media_player(a)
      [] body = "is_wireshark" -> is_wireshark(a)
      [] body = "is_terminal" -> is_terminal(a)
      [] body = "is_file_browser" -> is_file_browser(a)
      [] body = "is_image_viewer" -> is_image_viewer(a)
      [] body = "is_fontforge" -> is_fontforge(a)
      [] body = "is_office" -> is_office(a)
      [] body = "is_gvim" -> is_gvim(a)
      [] body = "is_editor" -> is_editor(a)
      [] body = "is_android_studio" -> is_android_studio(a)
      [] body = "is_skype" -> is_skype(a)
      [] body = "is_ida" -> is_ida(a)
      [] body = "is_steam" -> is_steam(a)
      [] body = "is_burp_suite" -> is_burp_suite(a)
      [] body = "is_gephi" -> is_gephi(a)
      [] body = "is_zeal" -> is_zeal(a)
      [] body = "is_gitk" -> is_gitk(a)
      [] body = "is_bless" -> is_bless(a)
      [] body = "is_discord" -> is_discord(a)
      [] body = "is_todoist" -> is_todoist(a)
      [] body = "is_inkscape" -> is_inkscape(a)

(* ---------------------------------------------------------------------- *)
(* Function objects, the priority decorator and the class namespace        *)
(* ---------------------------------------------------------------------- *)

\* The attribute dictionary of a function object: empty, or {priority: p}.
NoAttrs == [x \in {} |-> 0]

Priority(p) == [x \in {"priority"} |-> p]

hasattr_priority(f) == "priority" \in DOMAIN f.attrs

\* inspect.isfunction(f) and f.__name__.startswith("is_")
is_app_definition(f) ==
    f.kind = "function" /\ StartsWith(f.name, <<"i","s","_">>)

\* app_def.__name__[3:]
get_app_name(app_def) == SubSeq(app_def.name, 4, Len(app_def.name))

\* priority(priority_)(fn): sets fn.priority and returns fn.
priority(priority_, fn) == [fn EXCEPT !.attrs = Priority(priority_)]

\* The class namespace is a dict, kept in insertion order: a sequence of
\* [key, value].  d[k] = v keeps the position of a key that is present.
NsHas(d, k) == \E i \in DOMAIN d : d[i].key = k

NsGet(d, k) == d[CHOOSE i \in DOMAIN d : d[i].key = k].value

\* A namespace that is a list of bindings: every binding is appended.
NsSet_append(d, k, v) == Append(d, [key |-> k, value |-> v])

NsSet(d, k, v) ==
    IF NsHas(d, k)
    THEN [i \in DOMAIN d |-> IF d[i].key = k THEN [d[i] EXCEPT !.value = v]
                                             ELSE d[i]]
    ELSE Append(d, [key |-> k, value |-> v])

\* The statements of the body of class AppDefinition, in source order.
\* deco is the argument of the @priority decorator, if the def has one.
\* youtube_re stands for the entries of the namespace that are no
\* functions (__module__, __qualname__ and __doc__ are the others).
AppDefinitionBody == <<
    [key |-> <<"i","s","_","d","o","w","n","l","o","a","d","_","m","a","n","a","g","e","r">>,
     kind |-> "function", body |-> "is_download_manager", deco |-> << >>],
    [key |-> <<"i","s","_","b","r","o","w","s","e","r">>,
     kind |-> "function", body |-> "is_browser", deco |-> << >>],
    [key |-> <<"y","o","u","t","u","b","e","_","r","e">>,
     kind |-> "pattern", body |-> "youtube_re", deco |-> << >>],
    [key |-> <<"i","s","_","y","o","u","t","u","b","e">>,
     kind |-> "function", body |-> "is_youtube", deco |-> <<5>>],
    [key |-> <<"i","s","_","t","o","r">>,
     kind |-> "function", body |-> "is_tor", deco |-> << >>],
    [key |-> <<"i","s","_","p","d","f","_","r","e","a","d","e","r">>,
     kind |-> "function", body |-> "is_pdf_reader", deco |-> << >>],
    [key |-> <<"i","s","_","v","i","r","t","u","a","l","_","m","a","c","h","i","n","e">>,
     kind |-> "function", body |-> "is_virtual_machine", deco |-> << >>],
    [key |-> <<"i","s","_","m","e","d","i","a","_","p","l","a","y","e","r">>,
     kind |-> "function", body |-> "is_media_player", deco |-> << >>],
    [key |-> <<"i","s","_","w","i","r","e","s","h","a","r","k">>,
     kind |-> "function", body |-> "is_wireshark", deco |-> << >>],
    [key |-> <<"i","s","_","t","e","r","m","i","n","a","l">>,
     kind |-> "function", body |-> "is_terminal", deco |-> << >>],
    [key |-> <<"i","s","_","f","i","l","e","_","b","r","o","w","s","e","r">>,
     kind |-> "function", body |-> "is_file_browser", deco |-> << >>],
    [key |-> <<"i","s","_","i","m","a","g","e","_","v","i","e","w","e","r">>,
     kind |-> "function", body |-> "is_image_viewer", deco |-> << >>],
    [key |-> <<"i","s","_","f","o","n","t","f","o","r","g","e">>,
     kind |-> "function", body |-> "is_fontforge", deco |-> << >>],
    [key |-> <<"i","s","_","o","f","f","i","c","e">>,
     kind |-> "function", body |-> "is_office", deco |-> << >>],
    [key |-> <<"i","s","_","g","v","i","m">>,
     kind |-> "function", body |-> "is_gvim", deco |-> << >>],
    [key |-> <<"i","s","_","e","d","i","t","o","r">>,
     kind |-> "function", body |-> "is_editor", deco |-> << >>],
    [key |-> <<"i","s","_","a","n","d","r","o","i","d","_","s","t","u","d","i","o">>,
     kind |-> "function", body |-> "is_android_studio", deco |-> << >>],
    [key |-> <<"i","s","_","s","k","y","p","e">>,
     kind |-> "function", body |-> "is_skype", deco |-> << >>],
    [key |-> <<"i","s","_","i","d","a">>,
     kind |-> "function", body |-> "is_ida", deco |-> << >>],
    [key |-> <<"i","s","_","s","t","e","a","m">>,
     kind |-> "function", body |-> "is_steam", deco |-> << >>],
    [key |-> <<"i","s","_","b","u","r","p","_","s","u","i","t","e">>,
     kind |-> "function", body |-> "is_burp_suite", deco |-> << >>],
    [key |-> <<"i","s","_","g","e","p","h","i">>,
     kind |-> "function", body |-> "is_gephi", deco |-> << >>],
    [key |-> <<"i","s","_","z","e","a","l">>,
     kind |-> "function", body |-> "is_zeal", deco |-> << >>],
    [key |-> <<"i","s","_","g","i","t","k">>,
     kind |-> "function", body |-> "is_gitk", deco |-> << >>],
    [key |-> <<"i","s","_","b","l","e","s","s">>,
     kind |-> "function", body |-> "is_bless", deco |-> << >>],
    [key |-> <<"i","s","_","d","i","s","c","o","r","d">>,
     kind |-> "function", body |-> "is_discord", deco |-> << >>],
    [key |-> <<"i","s","_","t","o","d","o","i","s","t">>,
     kind |-> "function", body |-> "is_todoist", deco |-> << >>],
    [key |-> <<"i","s","_","i","n","k","s","c","a","p","e">>,
     kind |-> "function", body |-> "is_inkscape", deco |-> << >>]
>>

\* One statement of a class body: builds the object (a def builds a
\* function whose __name__ is the def's name; lineno is the ordinal of the
\* statement, as co_firstlineno orders the defs, and deco the decorator the
\* def was written with), applies the decorator and binds the name in the
\* namespace.
ExecStatement(d, stmt, lineno) ==
    LET fn0 == [name |-> stmt.key, kind |-> stmt.kind, body |-> stmt.body,
                attrs |-> NoAttrs, lineno |-> lineno, deco |-> stmt.deco]
        fn  == IF stmt.deco = << >> THEN fn0 ELSE priority(stmt.deco[1], fn0)
    IN  NsSet(d, stmt.key, fn)

\* StaticMethodPriorityMeta.__init__: every app definition without a
\* priority gets priority 0.  (attr = staticmethod(attr) rebinds only the
\* loop variable; the class keeps the plain functions.)
StaticMethodPriorityMeta_init(d) ==
    [i \in DOMAIN d |->
        IF is_app_definition(d[i].value) /\ ~hasattr_priority(d[i].value)
        THEN [d[i] EXCEPT !.value.attrs = Priority(0)]
        ELSE d[i]]

\* is_youtube: AppDefinition.is_browser(app) and
\*             AppDefinition.youtube_re.search(app.name)
\* is_browser is looked up in the class when is_youtube runs; search(None)
\* raises TypeError.
is_youtube(a, d) ==
    LET b == CallBody(NsGet(d, <<"i","s","_","b","r","o","w","s","e","r">>).body, a)
    IN  IF b # "True" THEN b
        ELSE IF a.name = None THEN "TypeError"
        ELSE PyBool(youtube_re_search(a.name))

\* app_def_func(app)
CallFunction(f, a, d) ==
    IF f.body = "is_youtube" THEN is_youtube(a, d) ELSE CallBody(f.body, a)

(* ---------------------------------------------------------------------- *)
(* get_glyph                                                               *)
(* ---------------------------------------------------------------------- *)

\* [attr for attr in AppDefinition.__dict__.values() if is_app_definition(attr)]
AppDefinitionsOf(d) ==
    SelectSeq([i \in DOMAIN d |-> d[i].value], is_app_definition)

\* list.sort(key=lambda f: f.priority, reverse=True) is a stable sort: an
\* element goes behind every element whose priority is not smaller.
\* An unstable sort: an element goes before the elements of its priority.
InsertByPriority_unstable(sorted, f) ==
    LET k == Cardinality({i \in DOMAIN sorted :
                            sorted[i].attrs["priority"] > f.attrs["priority"]})
    IN  SubSeq(sorted, 1, k) \o <<f>> \o SubSeq(sorted, k + 1, Len(sorted))

InsertByPriority(sorted, f) ==
    LET k == Cardinality({i \in DOMAIN sorted :
                            sorted[i].attrs["priority"] >= f.attrs["priority"]})
    IN  SubSeq(sorted, 1, k) \o <<f>> \o SubSeq(sorted, k + 1, Len(sorted))

RECURSIVE SortByPriority(_)
SortByPriority(s) ==
    IF s = << >> THEN << >>
    ELSE InsertByPriority(SortByPriority(SubSeq(s, 1, Len(s) - 1)), s[Len(s)])

\* The list get_glyph iterates over.
SortedAppDefinitions(d) == SortByPriority(AppDefinitionsOf(d))

\* What a call has produced: nothing yet, a glyph, None, or an exception.
NoResult == [kind |-> "pending", value |-> ""]

ReturnGlyph(glyph) == [kind |-> "glyph", value |-> glyph]

ReturnNone == [kind |-> "None", value |-> ""]

Raise(exc) == [kind |-> "raise", value |-> exc]

\* One iteration of the for loop over app_definitions: the predicates it
\* called (with what they returned), and whether the call goes on, returns
\* or raises.
\* The loop without its return: a match is noted and the loop goes on.
LoopIteration_no_return(f, a, g, d) ==
    LET app_name == get_app_name(f)
    IN  IF app_name \in DOMAIN g
        THEN LET r == CallFunction(f, a, d)
                 called == <<[name |-> app_name, outcome |-> r]>>
             IN  CASE r = "True"  -> [called |-> called, next |-> "continue",
                                      result |-> ReturnGlyph(g[app_name])]
                   [] r = "False" -> [called |-> called, next |-> "continue",
                                      result |-> NoResult]
                   [] OTHER       -> [called |-> called, next |-> "return",
                                      result |-> Raise(r)]
        ELSE [called |-> << >>, next |-> "continue", result |-> NoResult]

\* The loop with the predicate call wrapped in try/except: continue.
LoopIteration_swallow(f, a, g, d) ==
    LET app_name == get_app_name(f)
    IN  IF app_name \in DOMAIN g
        THEN LET r == CallFunction(f, a, d)
                 called == <<[name |-> app_name, outcome |-> r]>>
             IN  CASE r = "True"  -> [called |-> called, next |-> "return",
                                      result |-> ReturnGlyph(g[app_name])]
                   [] OTHER       -> [called |-> called, next |-> "continue",
                                      result |-> NoResult]
        ELSE [called |-> << >>, next |-> "continue", result |-> NoResult]

\* The loop without "app_name in glyphs", with a default glyph:
\* if app_def_func(app): return glyphs.get(app_name, "?")
LoopIteration_default_glyph(f, a, g, d) ==
    LET app_name == get_app_name(f)
        r == CallFunction(f, a, d)
        called == <<[name |-> app_name, outcome |-> r]>>
    IN  CASE r = "True"  -> [called |-> called, next |-> "return",
                             result |-> ReturnGlyph(IF app_name \in DOMAIN g
                                                    THEN g[app_name] ELSE "?")]
          [] r = "False" -> [called |-> called, next |-> "continue",
                             result |-> NoResult]
          [] OTHER       -> [called |-> called, next |-> "return",
                             result |-> Raise(r)]

LoopIteration(f, a, g, d) ==
    LET app_name == get_app_name(f)
    IN  IF app_name \in DOMAIN g
        THEN LET r == CallFunction(f, a, d)
                 called == <<[name |-> app_name, outcome |-> r]>>
             IN  CASE r = "True"  -> [called |-> called, next |-> "return",
                                      result |-> ReturnGlyph(g[app_name])]
                   [] r = "False" -> [called |-> called, next |-> "continue",
                                      result |-> NoResult]
                   [] OTHER       -> [called |-> called, next |-> "return",
                                      result |-> Raise(r)]
        ELSE [called |-> << >>, next |-> "continue", result |-> NoResult]

\* get_glyph(app, glyphs) as a whole, run on its own against the class d.
RECURSIVE get_glyph_from(_, _, _, _, _)
get_glyph_from(defs, i, a, g, d) ==
    IF i > Len(defs) THEN ReturnNone
    ELSE LET it == LoopIteration(defs[i], a, g, d)
         IN  IF it.next = "continue" THEN get_glyph_from(defs, i + 1, a, g, d)
             ELSE it.result

get_glyph(a, g, d) == get_glyph_from(SortedAppDefinitions(d), 1, a, g, d)

(* ---------------------------------------------------------------------- *)
(* Inputs                                                                  *)
(* ---------------------------------------------------------------------- *)

\* Extension statements a user appends to the class body.
MaxExtra == 1

Threads == {"t1", "t2"}

MainThread == "t1"

k_is_browser == <<"i","s","_","b","r","o","w","s","e","r">>

k_is_custom == <<"i","s","_","c","u","s","t","o","m">>

k_helper == <<"h","e","l","p","e","r">>

ExtensionStatements ==
    {[key |-> k, kind |-> "function", body |-> b, deco |-> p] :
        k \in {k_is_browser, k_is_custom},
        b \in {"is_browser", "is_download_manager"},
        p \in {<< >>, <<5>>}}
    \cup {[key |-> k_helper, kind |-> "function", body |-> "is_browser",
           deco |-> << >>]}

browser == <<"b","r","o","w","s","e","r">>

youtube == <<"y","o","u","t","u","b","e">>

download_manager == <<"d","o","w","n","l","o","a","d","_","m","a","n","a","g","e","r">>

custom == <<"c","u","s","t","o","m">>

media_player == <<"m","e","d","i","a","_","p","l","a","y","e","r">>

burp_suite == <<"b","u","r","p","_","s","u","i","t","e">>

unknown == <<"u","n","k","n","o","w","n">>

GlyphOf(k) ==
    CASE k = browser -> "B"
      [] k = youtube -> "Y"
      [] k = download_manager -> "D"
      [] k = custom -> "C"
      [] k = media_player -> "M"
      [] k = burp_suite -> "S"
      [] OTHER -> "U"

GlyphMapping(keys) == [k \in keys |-> GlyphOf(k)]

EmptyGlyphs == GlyphMapping({})

GlyphMappings ==
    {GlyphMapping(ks) : ks \in SUBSET {browser, youtube, custom}}
    \cup {GlyphMapping({download_manager}),
          GlyphMapping({unknown}),
          GlyphMapping({media_player, burp_suite, youtube})}

Window(c, i, n) == [class_ |-> c, instance_ |-> i, name |-> n]

NoWindow == Window(None, None, None)

c_Firefox == <<"F","i","r","e","f","o","x">>

c_Uget_gtk == <<"U","g","e","t","-","g","t","k">>

c_Unknown_App == <<"U","n","k","n","o","w","n","-","A","p","p">>

c_VLC == <<"V","L","C">>

n_1_YouTube == <<"(","1",")"," ","Y","o","u","T","u","b","e"," ","-"," ","M","o","z","i","l","l","a"," ","F","i","r","e","f","o","x">>

n_1YouTube == <<"(","1",")","Y","o","u","T","u","b","e"," ","-"," ","M","o","z","i","l","l","a"," ","F","i","r","e","f","o","x">>

n_Cats_YouTube == <<"C","a","t","s"," ","-"," ","Y","o","u","T","u","b","e"," ","-"," ","M","o","z","i","l","l","a"," ","F","i","r","e","f","o","x">>

n_Mozilla_Firefox == <<"M","o","z","i","l","l","a"," ","F","i","r","e","f","o","x">>

n_Burp_Suite == <<"B","u","r","p"," ","S","u","i","t","e"," ","C","o","m","m","u","n","i","t","y">>

w_youtube_home == Window(c_Firefox, None, n_1_YouTube)

w_no_title == Window(c_Firefox, None, None)

w_youtube_video == Window(c_Firefox, None, n_Cats_YouTube)

w_download == Window(c_Uget_gtk, None, None)

Windows ==
    {w_youtube_home, w_no_title, w_youtube_video,
     Window(c_Firefox, None, n_1YouTube),
     Window(c_Firefox, None, n_Mozilla_Firefox),
     w_download,
     Window(c_Unknown_App, None, None),
     Window(None, None, n_Burp_Suite),
     Window(c_VLC, None, << >>),
     Window(c_Uget_gtk, None, n_Cats_YouTube)}

ConcWindows == {w_youtube_home, w_no_title, w_youtube_video, w_download}

ConcGlyphMappings ==
    {GlyphMapping({browser, youtube}), GlyphMapping({browser}),
     GlyphMapping({download_manager})}

(* ---------------------------------------------------------------------- *)
(* State                                                                   *)
(*   ns              AppDefinition.__dict__ (while the class body runs,    *)
(*                   the namespace it fills)                               *)
(*   phase           "body" while the class statement runs, then "ready"   *)
(*   line            statements of the class body executed so far          *)
(*   per call frame t of get_glyph:                                        *)
(*   pc              "idle", "loop" (in the for loop) or "done"            *)
(*   app, glyphs     the arguments                                         *)
(*   app_definitions the sorted local list;  idx  the loop position        *)
(*   evaluated       the predicates the call has called, in order          *)
(*   result          what the call returned or raised                      *)
(*   prev            the result of the caller's previous call with the     *)
(*                   same arguments, if it repeats the call                *)
(* ---------------------------------------------------------------------- *)

IdleFrames(v) == [t \in Threads |-> v]

Init ==
    /\ ns = << >>
    /\ phase = "body"
    /\ line = 0
    /\ pc = IdleFrames("idle")
    /\ app = IdleFrames(NoWindow)
    /\ glyphs = IdleFrames(EmptyGlyphs)
    /\ app_definitions = IdleFrames(<< >>)
    /\ idx = IdleFrames(1)
    /\ evaluated = IdleFrames(<< >>)
    /\ result = IdleFrames(NoResult)
    /\ prev = IdleFrames(NoResult)

frames == <<pc, app, glyphs, app_definitions, idx, evaluated, result, prev>>

\* The next statement of the body of class AppDefinition.
ClassBodyStatement ==
    /\ phase = "body"
    /\ line < Len(AppDefinitionBody)
    /\ ns' = ExecStatement(ns, AppDefinitionBody[line + 1], line + 1)
    /\ line' = line + 1
    /\ UNCHANGED <<phase, frames>>

\* A statement a user added to the class body, after the shipped ones.
ExtensionStatement(stmt) ==
    /\ phase = "body"
    /\ line >= Len(AppDefinitionBody)
    /\ line < Len(AppDefinitionBody) + MaxExtra
    /\ ns' = ExecStatement(ns, stmt, line + 1)
    /\ line' = line + 1
    /\ UNCHANGED <<phase, frames>>

\* The class statement ends: the metaclass creates the class.
ClassCreated ==
    /\ phase = "body"
    /\ line >= Len(AppDefinitionBody)
    /\ ns' = StaticMethodPriorityMeta_init(ns)
    /\ phase' = "ready"
    /\ UNCHANGED <<line, frames>>

\* get_glyph(app, glyphs) up to the for loop: collect and sort.
get_glyph_enter(t, a, g, p) ==
    /\ app' = [app EXCEPT ![t] = a]
    /\ glyphs' = [glyphs EXCEPT ![t] = g]
    /\ app_definitions' = [app_definitions EXCEPT ![t] = SortedAppDefinitions(ns)]
    /\ idx' = [idx EXCEPT ![t] = 1]
    /\ evaluated' = [evaluated EXCEPT ![t] = << >>]
    /\ result' = [result EXCEPT ![t] = NoResult]
    /\ prev' = [prev EXCEPT ![t] = p]
    /\ pc' = [pc EXCEPT ![t] = "loop"]
    /\ UNCHANGED <<ns, phase, line>>

get_glyph_call(t, a, g) ==
    /\ phase = "ready"
    /\ pc[t] = "idle"
    /\ get_glyph_enter(t, a, g, NoResult)

\* The loop with glyphs.pop(app_name) for glyphs.get(app_name).
get_glyph_loop_pop(t) ==
    /\ pc[t] = "loop"
    /\ IF idx[t] > Len(app_definitions[t])
       THEN /\ result' = [result EXCEPT ![t] = ReturnNone]
            /\ pc' = [pc EXCEPT ![t] = "done"]
            /\ UNCHANGED <<idx, evaluated, glyphs>>
       ELSE LET it == LoopIteration(app_definitions[t][idx[t]], app[t],
                                    glyphs[t], ns)
            IN  /\ evaluated' = [evaluated EXCEPT ![t] = @ \o it.called]
                /\ result' = [result EXCEPT ![t] = it.result]
                /\ IF it.next = "continue"
                   THEN idx' = [idx EXCEPT ![t] = @ + 1] /\ pc' = pc
                   ELSE idx' = idx /\ pc' = [pc EXCEPT ![t] = "done"]
                /\ IF it.result.kind = "glyph"
                   THEN glyphs' = [glyphs EXCEPT ![t] =
                            [k \in DOMAIN @ \ {it.called[1].name} |-> @[k]]]
                   ELSE glyphs' = glyphs
    /\ UNCHANGED <<ns, phase, line, app, app_definitions, prev>>

\* The loop with its position kept in a module global shared by all calls.
get_glyph_loop_shared_idx(t) ==
    /\ pc[t] = "loop"
    /\ IF idx[t] > Len(app_definitions[t])
       THEN /\ result' = [result EXCEPT ![t] = ReturnNone]
            /\ pc' = [pc EXCEPT ![t] = "done"]
            /\ UNCHANGED <<idx, evaluated>>
       ELSE LET it == LoopIteration(app_definitions[t][idx[t]], app[t],
                                    glyphs[t], ns)
            IN  /\ evaluated' = [evaluated EXCEPT ![t] = @ \o it.called]
                /\ result' = [result EXCEPT ![t] = it.result]
                /\ IF it.next = "continue"
                   THEN idx' = [u \in Threads |-> idx[t] + 1] /\ pc' = pc
                   ELSE idx' = idx /\ pc' = [pc EXCEPT ![t] = "done"]
    /\ UNCHANGED <<ns, phase, line, app, glyphs, app_definitions, prev>>

\* The for loop: one iteration, or falling off its end (return None).
get_glyph_loop(t) ==
    /\ pc[t] = "loop"
    /\ IF idx[t] > Len(app_definitions[t])
       THEN /\ result' = [result EXCEPT ![t] = ReturnNone]
            /\ pc' = [pc EXCEPT ![t] = "done"]
            /\ UNCHANGED <<idx, evaluated>>
       ELSE LET it == LoopIteration(app_definitions[t][idx[t]], app[t],
                                    glyphs[t], ns)
            IN  /\ evaluated' = [evaluated EXCEPT ![t] = @ \o it.called]
                /\ result' = [result EXCEPT ![t] = it.result]
                /\ IF it.next = "continue"
                   THEN idx' = [idx EXCEPT ![t] = @ + 1] /\ pc' = pc
                   ELSE idx' = idx /\ pc' = [pc EXCEPT ![t] = "done"]
    /\ UNCHANGED <<ns, phase, line, app, glyphs, app_definitions, prev>>

\* The caller calls get_glyph a second time with the same arguments.
get_glyph_again(t) ==
    /\ pc[t] = "done"
    /\ prev[t] = NoResult
    /\ get_glyph_enter(t, app[t], glyphs[t], result[t])

\* The caller is done with the result.
Return(t) ==
    /\ pc[t] = "done"
    /\ pc' = [pc EXCEPT ![t] = "idle"]
    /\ app' = [app EXCEPT ![t] = NoWindow]
    /\ glyphs' = [glyphs EXCEPT ![t] = EmptyGlyphs]
    /\ app_definitions' = [app_definitions EXCEPT ![t] = << >>]
    /\ idx' = [idx EXCEPT ![t] = 1]
    /\ evaluated' = [evaluated EXCEPT ![t] = << >>]
    /\ result' = [result EXCEPT ![t] = NoResult]
    /\ prev' = [prev EXCEPT ![t] = NoResult]
    /\ UNCHANGED <<ns, phase, line>>

Next ==
    \/ ClassBodyStatement
    \/ \E stmt \in ExtensionStatements : ExtensionStatement(stmt)
    \/ ClassCreated
    \/ \E a \in Windows, g \in GlyphMappings : get_glyph_call(MainThread, a, g)
    \/ get_glyph_loop(MainThread)
    \/ get_glyph_again(MainThread)
    \/ Return(MainThread)

Spec == Init /\ [][Next]_vars

\* The class as shipped, after the class statement.
RECURSIVE ExecBody(_)
ExecBody(n) ==
    IF n = 0 THEN << >>
    ELSE ExecStatement(ExecBody(n - 1), AppDefinitionBody[n], n)

ShippedClass == StaticMethodPriorityMeta_init(ExecBody(Len(AppDefinitionBody)))

\* Several threads call get_glyph after the module has been imported.
InitConc ==
    /\ ns = ShippedClass
    /\ phase = "ready"
    /\ line = Len(AppDefinitionBody)
    /\ pc = IdleFrames("idle")
    /\ app = IdleFrames(NoWindow)
    /\ glyphs = IdleFrames(EmptyGlyphs)
    /\ app_definitions = IdleFrames(<< >>)
    /\ idx = IdleFrames(1)
    /\ evaluated = IdleFrames(<< >>)
    /\ result = IdleFrames(NoResult)
    /\ prev = IdleFrames(NoResult)

NextConc ==
    \E t \in Threads :
        \/ \E a \in ConcWindows, g \in ConcGlyphMappings : get_glyph_call(t, a, g)
        \/ get_glyph_loop(t)
        \/ Return(t)

SpecConc == InitConc /\ [][NextConc]_vars

(* ---------------------------------------------------------------------- *)
(* Properties                                                              *)
(* ---------------------------------------------------------------------- *)

Prio(f) == f.attrs["priority"]

Shipped == Len(AppDefinitionBody)

\* The names of the first n functions of defs that are keys of g, in order.
MappedNames(defs, n, g) ==
    LET Mapped(f) == get_app_name(f) \in DOMAIN g
        fs == SelectSeq(SubSeq(defs, 1, n), Mapped)
    IN  [i \in DOMAIN fs |-> get_app_name(fs[i])]

\* The result the algorithm of the specification gives: the glyph of the
\* first rule, in sorted order, that is mapped and whose predicate is true;
\* None when there is none.
FirstMatch(a, g, d) ==
    LET defs == SortedAppDefinitions(d)
        hits == {i \in DOMAIN defs :
                    /\ get_app_name(defs[i]) \in DOMAIN g
                    /\ CallFunction(defs[i], a, d) = "True"}
    IN  IF hits = {} THEN ReturnNone
        ELSE ReturnGlyph(g[get_app_name(
                 defs[CHOOSE i \in hits : \A j \in hits : i <= j])])

\* C1: for every window and every glyph mapping, get_glyph returns the
\* glyph of the first rule, in sorted order, that is a key of the mapping
\* and whose predicate is true for the window, and None (not an error)
\* when no rule is.
C1_FirstMatchOrNone ==
    \A t \in Threads :
        pc[t] = "done" => result[t] = FirstMatch(app[t], glyphs[t], ns)

\* The same for the calls in which no predicate raises.
FirstMatchUnlessRaised ==
    \A t \in Threads :
        (pc[t] = "done" /\ result[t].kind # "raise")
            => result[t] = FirstMatch(app[t], glyphs[t], ns)

\* The list a call iterates over is sorted by non-increasing priority, and
\* a function written without a decorator has priority 0.  (Neighbours
\* only: >= is transitive.)
SortedWithDefault(defs) ==
    /\ \A i \in 1..(Len(defs) - 1) : Prio(defs[i]) >= Prio(defs[i + 1])
    /\ \A i \in DOMAIN defs :
          Prio(defs[i]) = IF defs[i].deco = << >> THEN 0 ELSE defs[i].deco[1]

\* C2 as stated: the list a call iterates over is sorted by non-increasing
\* priority, rules without a decorator have priority 0, and rules of equal
\* priority are in the order of their declarations.  (Rules of equal
\* priority are neighbours in a sorted list, and < is transitive.)
C2_StableByDeclaration ==
    \A t \in Threads :
        pc[t] # "idle" =>
            LET defs == app_definitions[t]
            IN  /\ SortedWithDefault(defs)
                /\ \A i \in 1..(Len(defs) - 1) :
                      Prio(defs[i]) = Prio(defs[i + 1])
                          => defs[i].lineno < defs[i + 1].lineno

\* The app definitions of the class, in the order of its namespace.
Registered(d) ==
    LET IsDef(e) == is_app_definition(e.value)
        es == SelectSeq(d, IsDef)
    IN  [i \in DOMAIN es |-> es[i].value]

\* The position of a function in a list.
IndexIn(fs, f) == CHOOSE i \in DOMAIN fs : fs[i] = f

\* C2 amended: the list a call iterates over holds exactly the app
\* definitions of the class, is sorted by non-increasing priority, rules
\* without a decorator have priority 0, and rules of equal priority are in
\* the order in which their names were first bound in the class body (the
\* order of the class namespace).
C2_StableByFirstDeclaration ==
    \A t \in Threads :
        pc[t] # "idle" =>
            LET defs == app_definitions[t]
                reg  == Registered(ns)
            IN  /\ SortedWithDefault(defs)
                /\ Len(defs) = Len(reg)
                /\ {defs[i] : i \in DOMAIN defs} = {reg[i] : i \in DOMAIN reg}
                /\ \A i \in 1..(Len(defs) - 1) :
                      Prio(defs[i]) = Prio(defs[i + 1])
                          => IndexIn(reg, defs[i]) < IndexIn(reg, defs[i + 1])

\* A call iterates over a list in which a user's rule with priority 5 ties
\* with is_youtube, and an undecorated user's rule ties with the shipped
\* rules of priority 0.
C2_Witness ==
    /\ pc[MainThread] = "loop"
    /\ \E i, j \in DOMAIN app_definitions[MainThread] :
          LET f == app_definitions[MainThread][i]
              h == app_definitions[MainThread][j]
          IN  /\ i < j
              /\ Prio(f) = Prio(h)
              /\ h.lineno > Shipped

\* C3: the shipped class, the window of class "Firefox" titled
\* "(1) YouTube - Mozilla Firefox", a mapping with the keys browser and
\* youtube: get_glyph returns the youtube glyph "Y".
C3_YoutubeBeforeBrowser ==
    \A t \in Threads :
        (/\ pc[t] = "done"
         /\ ns = ShippedClass
         /\ app[t] = w_youtube_home
         /\ {browser, youtube} \subseteq DOMAIN glyphs[t])
            => result[t] = ReturnGlyph("Y")

\* C4: the shipped class, a window of class "Firefox" without a title, a
\* mapping with the keys youtube and browser: is_youtube returns false
\* without failing and get_glyph returns the browser glyph "B".
C4_AbsentTitleFallsThrough ==
    \A t \in Threads :
        (/\ pc[t] = "done"
         /\ ns = ShippedClass
         /\ app[t] = w_no_title
         /\ {browser, youtube} \subseteq DOMAIN glyphs[t])
            => /\ is_youtube(app[t], ns) = "False"
               /\ result[t] = ReturnGlyph("B")

\* C5 as stated: a statement that declares a rule under a name that is
\* already registered fails and leaves the registry unchanged: no binding
\* of the namespace is ever replaced.
C5_DuplicateRejected ==
    [][(phase = "body" /\ line' = line + 1)
          => \A i \in DOMAIN ns : ns'[i] = ns[i]]_vars

NamesDistinct ==
    \A i, j \in DOMAIN ns : i # j => ns[i].key # ns[j].key

\* A statement of the class body binds its name to the function it
\* declares: in place when the name is bound, at the end otherwise.
BindsInPlace ==
    (phase = "body" /\ line' = line + 1) =>
        \E k \in DOMAIN ns' :
            /\ ns'[k].value.lineno = line'
            /\ \A i \in DOMAIN ns : i # k => ns'[i] = ns[i]
            /\ IF \E i \in DOMAIN ns : ns[i].key = ns'[k].key
               THEN Len(ns') = Len(ns) /\ ns[k].key = ns'[k].key
               ELSE Len(ns') = Len(ns) + 1 /\ k = Len(ns')

\* C5 amended: declaring a rule under a name that is already registered
\* does not fail: it replaces the function bound to that name, priority
\* included, and keeps the name's position; the names of the registry are
\* pairwise distinct in every reachable state.
C5_ReplacedInPlace == []NamesDistinct /\ [][BindsInPlace]_vars

\* The user has declared is_browser again: the name is bound once, at its
\* old position, to the later function.
C5_Witness ==
    /\ Len(ns) = Shipped
    /\ \E i \in DOMAIN ns :
          /\ ns[i].key = k_is_browser
          /\ ns[i].value.lineno > Shipped

\* C6: a call evaluates the predicates of the mapped rules in the order of
\* its sorted list and stops at the first success: what it has evaluated is
\* the mapped rules of the part of the list it has passed, in order, and
\* every evaluation but the last returned false.  (evaluated lists the
\* calls get_glyph makes; the call is_youtube makes to is_browser is part
\* of the evaluation of is_youtube.)
C6_ShortCircuit ==
    \A t \in Threads :
        pc[t] # "idle" =>
            LET n == IF pc[t] = "done" /\ result[t].kind # "None"
                     THEN idx[t] ELSE idx[t] - 1
            IN  /\ [i \in DOMAIN evaluated[t] |-> evaluated[t][i].name]
                      = MappedNames(app_definitions[t], n, glyphs[t])
                /\ \A i \in DOMAIN evaluated[t] :
                      i < Len(evaluated[t]) => evaluated[t][i].outcome = "False"
                /\ (pc[t] = "loop" /\ evaluated[t] # << >>)
                      => evaluated[t][Len(evaluated[t])].outcome = "False"
                /\ (pc[t] = "done" /\ result[t].kind = "glyph")
                      => /\ evaluated[t] # << >>
                         /\ evaluated[t][Len(evaluated[t])].outcome = "True"

\* A call has returned the glyph of the second predicate it evaluated, and
\* a mapped rule behind it, whose predicate is true, was not evaluated.
C6_Witness ==
    /\ pc[MainThread] = "done"
    /\ result[MainThread].kind = "glyph"
    /\ Len(evaluated[MainThread]) = 2
    /\ \E i \in DOMAIN app_definitions[MainThread] :
          LET f == app_definitions[MainThread][i]
          IN  /\ i > idx[MainThread]
              /\ get_app_name(f) \in DOMAIN glyphs[MainThread]
              /\ CallFunction(f, app[MainThread], ns) = "True"

Raised(outcome) == outcome \notin {"True", "False"}

\* C7 as stated: when the predicate of a mapped rule raises, the call ends
\* in the error PredicateEvaluationError.
C7_PredicateEvaluationError ==
    \A t \in Threads :
        \A i \in DOMAIN evaluated[t] :
            Raised(evaluated[t][i].outcome)
                => /\ pc[t] = "done"
                   /\ result[t] = Raise("PredicateEvaluationError")

\* C7 amended: when the predicate of a mapped rule raises, the call does
\* not go on to later rules and ends by raising the predicate's own
\* exception (not wrapped), returning neither a glyph nor None.
C7_Propagates ==
    \A t \in Threads :
        \A i \in DOMAIN evaluated[t] :
            Raised(evaluated[t][i].outcome)
                => /\ i = Len(evaluated[t])
                   /\ pc[t] = "done"
                   /\ result[t] = Raise(evaluated[t][i].outcome)

\* is_youtube has raised TypeError in a call that had the browser rule,
\* mapped and true for the window, still before it.
C7_Witness ==
    /\ pc[MainThread] = "done"
    /\ result[MainThread] = Raise("TypeError")
    /\ browser \in DOMAIN glyphs[MainThread]
    /\ is_browser(app[MainThread]) = "True"

NoRuleMapped(g, d) ==
    \A i \in DOMAIN d :
        is_app_definition(d[i].value) => get_app_name(d[i].value) \notin DOMAIN g

\* C8: when no registered rule's name is a key of the glyph mapping, a call
\* returns None, whatever the window.
C8_NothingMapped ==
    \A t \in Threads :
        (pc[t] = "done" /\ NoRuleMapped(glyphs[t], ns)) => result[t] = ReturnNone

\* A call has returned None for a download manager's window, under a
\* mapping whose only key is no rule's name.
C8_Witness ==
    /\ pc[MainThread] = "done"
    /\ result[MainThread] = ReturnNone
    /\ glyphs[MainThread] = GlyphMapping({unknown})
    /\ is_download_manager(app[MainThread]) = "True"

SameResultTwice ==
    \A t \in Threads :
        (pc[t] = "done" /\ prev[t] # NoResult) => result[t] = prev[t]

CallLeavesInputs ==
    phase = "ready" =>
        /\ ns' = ns
        /\ \A t \in Threads :
              pc[t] # "idle" =>
                  (pc'[t] # "idle" => app'[t] = app[t] /\ glyphs'[t] = glyphs[t])

\* C9: a call leaves the class (rules, priorities, order), the window and
\* the glyph mapping as they were, and a second call with the same window
\* and mapping gives the result of the first.
C9_Idempotent == []SameResultTwice /\ [][CallLeavesInputs]_vars

\* The second of two calls with the same arguments has returned a glyph.
C9_Witness ==
    /\ pc[MainThread] = "done"
    /\ prev[MainThread] # NoResult
    /\ result[MainThread].kind = "glyph"

\* C10: with the class created before the first call, every call that runs
\* interleaved with calls of other threads returns what get_glyph returns
\* when run alone on its own window and glyph mapping.
C10_NoInterference ==
    \A t \in Threads :
        pc[t] = "done" => result[t] = get_glyph(app[t], glyphs[t], ns)

\* Two calls have overlapped: one has raised while the other, which has
\* evaluated a predicate already, is still in its loop.
C10_Witness ==
    \E t, u \in Threads :
        /\ t # u
        /\ pc[t] = "done" /\ result[t].kind = "raise"
        /\ pc[u] = "loop" /\ evaluated[u] # << >>

====
